---- MODULE Spec2Model ----
(***************************************************************************)
(* Model of main.py: the chat handler groq_shamila_search with its token   *)
(* budget, the sqlite "users" table (signup, login, history column stored  *)
(* as JSON text) and the per-session Streamlit state.                      *)
(*                                                                         *)
(* A text (Python str) is a sequence of one-character strings.  A turn,    *)
(* the Python pair (q, a) or the two-element list [q, a] that json.loads   *)
(* gives back, is the tuple <<q, a>>.  A history is a sequence of turns.   *)
(***************************************************************************)
EXTENDS Integers, Sequences, FiniteSets, TLC

(***************************************************************************)
(* Bounds of the model.                                                    *)
(***************************************************************************)
\* Number of chat submissions (over all sessions) explored.
MaxCalls == 3

(***************************************************************************)
(* Texts.                                                                  *)
(***************************************************************************)
\* n one-letter words separated by single spaces ("a a a ... a").
Words(n) == [i \in 1..(IF n = 0 THEN 0 ELSE 2 * n - 1) |->
                IF i % 2 = 1 THEN "a" ELSE " "]

\* str.split() with no argument splits on runs of whitespace.
Whitespace == {" ", "\n"}

\* main.py:68-69  count_tokens(text) = len(text.split()): the number of
\* maximal runs of non-whitespace characters.
count_tokens(text) ==
    Cardinality({i \in 1..Len(text) :
                    /\ text[i] \notin Whitespace
                    /\ (i = 1 \/ text[i - 1] \in Whitespace)})

(***************************************************************************)
(* json.dumps / json.loads on a history (main.py:58, main.py:63).          *)
(***************************************************************************)
Min(S) == CHOOSE x \in S : \A y \in S : x <= y

\* Characters json.dumps writes as a two-character escape.
Escaped == {"\"", "\\", "\n"}

EscapeChar(c) == IF c = "\n" THEN <<"\\", "n">> ELSE <<"\\", c>>

UnescapeChar(c) == IF c = "n" THEN "\n" ELSE c

\* The body of a JSON string for text from position i on: plain stretches are
\* copied, each character of Escaped becomes backslash + character.
RECURSIVE EscapeFrom(_, _, _)
EscapeFrom(text, i, specials) ==
    LET rest == {j \in specials : j >= i}
    IN  IF rest = {} THEN SubSeq(text, i, Len(text))
        ELSE LET j == Min(rest)
             IN  SubSeq(text, i, j - 1) \o EscapeChar(text[j])
                    \o EscapeFrom(text, j + 1, specials)

dumps_str(text) ==
    <<"\"">> \o EscapeFrom(text, 1, {j \in 1..Len(text) : text[j] \in Escaped})
             \o <<"\"">>

\* A turn is written as a two-element JSON array: ["q", "a"].
dumps_turn(turn) ==
    <<"[">> \o dumps_str(turn[1]) \o <<",", " ">> \o dumps_str(turn[2]) \o <<"]">>

RECURSIVE dumps_turns(_, _)
dumps_turns(hist, i) ==
    IF i > Len(hist) THEN <<>>
    ELSE (IF i = 1 THEN <<>> ELSE <<",", " ">>) \o dumps_turn(hist[i])
            \o dumps_turns(hist, i + 1)

\* main.py:63  json.dumps(history)
json_dumps(hist) == <<"[">> \o dumps_turns(hist, 1) \o <<"]">>

\* Parsing.  Each parser takes the JSON text s, a position i and the set of
\* positions of quotes and backslashes in s, and returns the value read and
\* the position after it.
RECURSIVE loads_str_body(_, _, _, _)
loads_str_body(s, i, marks, acc) ==
    LET j == Min({k \in marks : k >= i})
    IN  IF s[j] = "\""
        THEN [val |-> acc \o SubSeq(s, i, j - 1), next |-> j + 1]
        ELSE loads_str_body(s, j + 2, marks,
                            acc \o SubSeq(s, i, j - 1) \o <<UnescapeChar(s[j + 1])>>)

RECURSIVE SkipWs(_, _)
SkipWs(s, i) == IF i <= Len(s) /\ s[i] \in Whitespace THEN SkipWs(s, i + 1) ELSE i

RECURSIVE loads_value(_, _, _)
RECURSIVE loads_items(_, _, _, _)
loads_value(s, i, marks) ==
    IF s[i] = "\"" THEN loads_str_body(s, i + 1, marks, <<>>)
    ELSE \* s[i] = "["
         LET k == SkipWs(s, i + 1)
         IN  IF s[k] = "]" THEN [val |-> <<>>, next |-> k + 1]
             ELSE loads_items(s, k, marks, <<>>)

loads_items(s, i, marks, acc) ==
    LET item == loads_value(s, i, marks)
        k    == SkipWs(s, item.next)
    IN  IF s[k] = ","
        THEN loads_items(s, SkipWs(s, k + 1), marks, Append(acc, item.val))
        ELSE [val |-> Append(acc, item.val), next |-> k + 1]

\* main.py:58  json.loads(row[0])
json_loads(s) ==
    loads_value(s, 1, {k \in 1..Len(s) : s[k] \in {"\"", "\\"}}).val

(***************************************************************************)
(* Inputs.                                                                 *)
(***************************************************************************)
Sessions  == {"s1", "s2"}

\* A streamed response is a sequence of chunks; a chunk is its delta, a record
\* that has a content field (a text, possibly empty) or has none (RoleOnly).
RoleOnly == [role |-> "assistant"]
Delta(text) == [content |-> text]

\* Prompts typed into the chat box: a two-word prompt with a quote, a
\* backslash and a newline in it, 300 words and 301 words.
Prompts == {<<"\"", "\\", "\n", "a">>, Words(300), Words(301)}

\* Responses: no content at all (the answer is the empty text), 800 words
\* in three chunks, 1600 words in one.
Streams == { <<RoleOnly, Delta(<<>>)>>,
             <<RoleOnly, Delta(Words(400)), Delta(<<" ">>), Delta(Words(400))>>,
             <<Delta(Words(1600))>> }

(***************************************************************************)
(* Program constants.                                                      *)
(***************************************************************************)
\* main.py:74 and main.py:241
per_request_limit == 300
\* main.py:89
max_allowed_tokens == 1500

TooLongMsg == "Your question is too long. Please ask in fewer words."
LimitMsg ==
    "Your question and conversation history exceed the allowed limit. Please ask a shorter question."
TrimNotice ==
    "Some of your previous conversation was trimmed to keep within limits."
\* The fixed system message of main.py:107-147, abbreviated to its first word.
SystemPrompt == <<"C", "o", "n", "t", "e", "x", "t">>

(***************************************************************************)
(* State.                                                                  *)
(***************************************************************************)
VARIABLES
    users,                 \* the sqlite table: username -> [password, history]
    authenticated,         \* st.session_state.authenticated, per session
    username,              \* st.session_state.username, per session
    conversation_history,  \* st.session_state.conversation_history, per session
    pc,                    \* "idle", "waiting" inside client...create(...), or
                           \* "streaming" inside the loop over the response
    query,                 \* groq_shamila_search: its argument
    loaded,                \* the history as loaded at main.py:78-82
    history,               \* the local list `history` (trimmed in place)
    trimmed,               \* the local flag `trimmed`
    messages,              \* the message list passed to the completion service
    info,                  \* notices shown with st.info by the latest call
    result,                \* what the latest operation of the session gave back
    answer,                \* the answer text returned by the latest call
    steps,                 \* the effects of the latest call, in order
    stream,                \* the chunks of the response being iterated
    pos,                   \* how many of them the loop has taken
    answer_chunks,         \* the local list `answer_chunks`
    saved,                 \* the history the latest successful call stored
    calls                  \* chat submissions made so far

vars == <<users, authenticated, username, conversation_history, pc, query,
          loaded, history, trimmed, messages, info, result, answer, steps,
          stream, pos, answer_chunks, saved, calls>>

session_state == <<authenticated, username, conversation_history>>
reader == <<stream, pos, answer_chunks>>
locals == <<query, loaded, history, trimmed, messages, info, answer, steps,
            reader, saved>>

\* st.session_state.username before any login (main.py:336-337).
None == "<None>"

(***************************************************************************)
(* The users table (main.py:22-65).                                        *)
(***************************************************************************)
\* INSERT OR REPLACE: an existing row is overwritten.
signup_user_replace(table, name, password) ==
    [raised |-> FALSE,
     table  |-> [u \in DOMAIN table \cup {name} |->
                   IF u = name
                   THEN [password |-> password, history |-> <<"[", "]">>]
                   ELSE table[u]]]

\* main.py:36-42  INSERT INTO users ...: username is the PRIMARY KEY, so the
\* insert raises when the key is present and the table is left as it was.
signup_user(table, name, password) ==
    IF name \in DOMAIN table
    THEN [raised |-> TRUE, table |-> table]
    ELSE [raised |-> FALSE,
          table  |-> [u \in DOMAIN table \cup {name} |->
                        IF u = name
                        THEN [password |-> password, history |-> <<"[", "]">>]
                        ELSE table[u]]]

\* A row of that name, whatever its password.
validate_user_name_only(table, name, password) == name \in DOMAIN table

\* main.py:44-50  row and row[0] == password
validate_user(table, name, password) ==
    name \in DOMAIN table /\ table[name].password = password

\* The history column never read: every user starts from no history.
get_user_history_none(table, name) == <<>>

\* main.py:52-58
get_user_history(table, name) ==
    IF name \in DOMAIN table /\ table[name].history # <<>>
    THEN json_loads(table[name].history)
    ELSE <<>>

\* The UPDATE without its WHERE clause: every row gets the history.
update_user_history_every_row(table, name, hist) ==
    [u \in DOMAIN table |-> [table[u] EXCEPT !.history = json_dumps(hist)]]

\* The newest turn added to the stored history instead of replacing it.
update_user_history_add_turn(table, name, hist) ==
    IF name \in DOMAIN table
    THEN [table EXCEPT ![name].history =
              json_dumps(get_user_history(table, name) \o <<hist[Len(hist)]>>)]
    ELSE table

\* The UPDATE without its commit: the table keeps the old history.
update_user_history_uncommitted(table, name, hist) == table

\* main.py:60-65  UPDATE users SET history=? WHERE username=?
update_user_history(table, name, hist) ==
    IF name \in DOMAIN table
    THEN [table EXCEPT ![name].history = json_dumps(hist)]
    ELSE table

(***************************************************************************)
(* The token budget (main.py:84-100).                                      *)
(***************************************************************************)
RECURSIVE SumTurns(_, _)
SumTurns(hist, i) ==
    IF i > Len(hist) THEN 0
    ELSE count_tokens(hist[i][1]) + count_tokens(hist[i][2]) + SumTurns(hist, i + 1)

\* The sum with the answers left out.
total_tokens_questions_only(hist, q) ==
    LET RECURSIVE SumQ(_)
        SumQ(i) == IF i > Len(hist) THEN 0 ELSE count_tokens(hist[i][1]) + SumQ(i + 1)
    IN  SumQ(1) + count_tokens(q)

\* main.py:85-86
total_tokens(hist, q) == SumTurns(hist, 1) + count_tokens(q)

\* The per-request check made against the history ceiling.
too_long_wrong_limit(q) == count_tokens(q) > max_allowed_tokens

\* main.py:74 and main.py:241
too_long(q) == count_tokens(q) > per_request_limit

\* The loop keeping the newest turn whatever its size.
over_budget_keep_one(tokens_now, hist) ==
    tokens_now > max_allowed_tokens /\ Len(hist) > 1

\* main.py:93  the loop condition
over_budget(tokens_now, hist) == tokens_now > max_allowed_tokens /\ hist # <<>>

\* history.pop(): the newest turn goes.
pop_newest(hist) == SubSeq(hist, 1, Len(hist) - 1)

\* history.clear(): every turn goes at once.
pop_all(hist) == <<>>

\* main.py:94  history.pop(0)
pop_oldest(hist) == Tail(hist)

\* main.py:88-96  the loop: one turn popped per iteration, the sum recomputed
\* after each pop, the flag set in the loop body.  pops counts the iterations.
RECURSIVE trim(_, _, _, _)
trim(hist, q, flag, pops) ==
    LET tokens_now == total_tokens(hist, q)
    IN  IF over_budget(tokens_now, hist)
        THEN trim(pop_oldest(hist), q, TRUE, pops + 1)
        ELSE [history |-> hist, trimmed |-> flag, tokens_now |-> tokens_now,
              pops |-> pops]

\* main.py:99  the check after the loop
still_too_long(tokens_now) == tokens_now > max_allowed_tokens

\* The notice shown whatever the flag.
notices_always(flag) == {TrimNotice}

\* main.py:103-104
notices(flag) == IF flag THEN {TrimNotice} ELSE {}

(***************************************************************************)
(* The completion request and response (main.py:106-167).                  *)
(***************************************************************************)
\* The reply of a turn before its question.
RECURSIVE turn_messages_reply_first(_, _)
turn_messages_reply_first(hist, i) ==
    IF i > Len(hist) THEN <<>>
    ELSE << [role |-> "assistant", content |-> hist[i][2]],
            [role |-> "user", content |-> hist[i][1]] >>
         \o turn_messages_reply_first(hist, i + 1)

\* main.py:148-150
RECURSIVE turn_messages(_, _)
turn_messages(hist, i) ==
    IF i > Len(hist) THEN <<>>
    ELSE << [role |-> "user", content |-> hist[i][1]],
            [role |-> "assistant", content |-> hist[i][2]] >>
         \o turn_messages(hist, i + 1)

\* main.py:107-152
build_messages(hist, q) ==
    << [role |-> "system", content |-> SystemPrompt] >>
        \o turn_messages(hist, 1)
        \o << [role |-> "user", content |-> q] >>

\* main.py:162-167  the chunks with a non-empty content, joined in order
RECURSIVE join_chunks(_, _)
join_chunks(chunks, i) ==
    IF i > Len(chunks) THEN <<>>
    ELSE (IF "content" \in DOMAIN chunks[i] /\ chunks[i].content # <<>>
          THEN chunks[i].content ELSE <<>>)
         \o join_chunks(chunks, i + 1)

\* main.py:164  hasattr(delta, "content") and delta.content
has_content(chunk) == "content" \in DOMAIN chunk /\ chunk.content # <<>>

\* The texts joined newest first.
RECURSIVE join_newest_first(_, _)
join_newest_first(texts, i) ==
    IF i > Len(texts) THEN <<>>
    ELSE join_newest_first(texts, i + 1) \o texts[i]

\* main.py:167  "".join(answer_chunks)
RECURSIVE join(_, _)
join(texts, i) ==
    IF i > Len(texts) THEN <<>>
    ELSE texts[i] \o join(texts, i + 1)

\* history.insert(0, (query, answer))
prepend_turn(hist, q, a) == << <<q, a>> >> \o hist

\* main.py:170  history.append((query, answer))
append_turn(hist, q, a) == Append(hist, <<q, a>>)

\* The in-session list whoever is logged in.
load_history_from_session(s) == conversation_history[s]

\* main.py:77-82  the history of the logged-in user from the table, the
\* in-session list for a guest
load_history(s) ==
    IF authenticated[s] THEN get_user_history(users, username[s])
    ELSE conversation_history[s]

(***************************************************************************)
(* Initial state: an empty table (main.py:332) and fresh sessions          *)
(* (main.py:334-337, main.py:220-221).                                     *)
(***************************************************************************)
Init ==
    /\ users = [u \in {} |-> [password |-> "", history |-> <<>>]]
    /\ authenticated = [s \in Sessions |-> FALSE]
    /\ username = [s \in Sessions |-> None]
    /\ conversation_history = [s \in Sessions |-> <<>>]
    /\ pc = [s \in Sessions |-> "idle"]
    /\ query = [s \in Sessions |-> <<>>]
    /\ loaded = [s \in Sessions |-> <<>>]
    /\ history = [s \in Sessions |-> <<>>]
    /\ trimmed = [s \in Sessions |-> FALSE]
    /\ messages = [s \in Sessions |-> <<>>]
    /\ info = [s \in Sessions |-> {}]
    /\ result = [s \in Sessions |-> ""]
    /\ answer = [s \in Sessions |-> <<>>]
    /\ steps = [s \in Sessions |-> <<>>]
    /\ stream = [s \in Sessions |-> <<>>]
    /\ pos = [s \in Sessions |-> 0]
    /\ answer_chunks = [s \in Sessions |-> <<>>]
    /\ saved = [s \in Sessions |-> <<>>]
    /\ calls = 0

(***************************************************************************)
(* Operations.                                                             *)
(***************************************************************************)
\* main.py:205-214  signup_ui, "Create Account" pressed
Signup(s, name, password) ==
    /\ pc[s] = "idle"
    /\ ~authenticated[s]
    /\ LET r == signup_user(users, name, password)
       IN  /\ users' = r.table
           /\ result' = [result EXCEPT ![s] =
                            IF r.raised THEN "Username already exists."
                            ELSE "Account created. Please log in."]
    /\ UNCHANGED <<session_state, pc, locals, calls>>

\* main.py:192-203  login_ui, "Login" pressed
Login(s, name, password) ==
    /\ pc[s] = "idle"
    /\ ~authenticated[s]
    /\ IF validate_user(users, name, password)
       THEN /\ authenticated' = [authenticated EXCEPT ![s] = TRUE]
            /\ username' = [username EXCEPT ![s] = name]
            /\ conversation_history' =
                  [conversation_history EXCEPT ![s] = get_user_history(users, name)]
            /\ result' = [result EXCEPT ![s] = "Welcome back"]
       ELSE /\ result' = [result EXCEPT ![s] = "Invalid credentials."]
            /\ UNCHANGED session_state
    /\ UNCHANGED <<users, pc, locals, calls>>

\* main.py:239-250 chat_ui with a prompt, and groq_shamila_search (main.py:72-160)
\* up to the request to the completion service.  For a guest the local list
\* `history` is the very list held in st.session_state (main.py:82), so the
\* pops of the loop are pops of the in-session history.
ChatSubmit(s, prompt) ==
    /\ pc[s] = "idle"
    /\ calls < MaxCalls
    /\ calls' = calls + 1
    /\ query' = [query EXCEPT ![s] = prompt]
    /\ answer' = [answer EXCEPT ![s] = <<>>]
    /\ stream' = [stream EXCEPT ![s] = <<>>]
    /\ pos' = [pos EXCEPT ![s] = 0]
    /\ answer_chunks' = [answer_chunks EXCEPT ![s] = <<>>]
    /\ UNCHANGED <<users, authenticated, username, saved>>
    /\ IF too_long(prompt)
       THEN /\ result' = [result EXCEPT ![s] = TooLongMsg]
            /\ loaded' = [loaded EXCEPT ![s] = <<>>]
            /\ history' = [history EXCEPT ![s] = <<>>]
            /\ trimmed' = [trimmed EXCEPT ![s] = FALSE]
            /\ messages' = [messages EXCEPT ![s] = <<>>]
            /\ info' = [info EXCEPT ![s] = {}]
            /\ steps' = [steps EXCEPT ![s] = <<>>]
            /\ UNCHANGED <<conversation_history, pc>>
       ELSE \E h0 \in {load_history(s)} :
            \E t \in {trim(h0, prompt, FALSE, 0)} :
            LET rejected == still_too_long(t.tokens_now)
            IN  /\ loaded' = [loaded EXCEPT ![s] = h0]
                /\ history' = [history EXCEPT ![s] = t.history]
                /\ trimmed' = [trimmed EXCEPT ![s] = t.trimmed]
                /\ conversation_history' =
                      [conversation_history EXCEPT ![s] =
                          IF authenticated[s] THEN @ ELSE t.history]
                /\ info' = [info EXCEPT ![s] =
                              IF rejected THEN {} ELSE notices(t.trimmed)]
                /\ messages' = [messages EXCEPT ![s] =
                              IF rejected THEN <<>>
                              ELSE build_messages(t.history, prompt)]
                /\ result' = [result EXCEPT ![s] =
                              IF rejected THEN LimitMsg ELSE ""]
                /\ pc' = [pc EXCEPT ![s] = IF rejected THEN "idle" ELSE "waiting"]
                /\ steps' = [steps EXCEPT ![s] =
                              <<"load">>
                              \o [i \in 1..t.pops |-> "pop"]
                              \o (IF rejected THEN <<>> ELSE <<"create">>)]

\* main.py:167-177  the stream has been read to its end: the answer a is
\* joined, the turn appended, the history saved, the answer returned.
RecordAnswer(s, a) ==
    /\ LET new == append_turn(history[s], query[s], a)
       IN  /\ answer' = [answer EXCEPT ![s] = a]
           /\ history' = [history EXCEPT ![s] = new]
           /\ users' = IF authenticated[s]
                       THEN update_user_history(users, username[s], new)
                       ELSE users
           /\ conversation_history' = [conversation_history EXCEPT ![s] = new]
           /\ saved' = [saved EXCEPT ![s] = new]
    /\ steps' = [steps EXCEPT ![s] =
                    @ \o <<"append">>
                      \o (IF authenticated[s] THEN <<"update">> ELSE <<>>)
                      \o <<"set">>]
    /\ result' = [result EXCEPT ![s] = "answer"]
    /\ pc' = [pc EXCEPT ![s] = "idle"]
    /\ UNCHANGED <<authenticated, username, query, loaded, trimmed, messages,
                   info, calls>>

\* main.py:162-177  the whole loop over the response and what follows it, in
\* one step.
CompletionReturn(s, chunks) ==
    /\ pc[s] = "waiting"
    /\ RecordAnswer(s, join_chunks(chunks, 1))
    /\ UNCHANGED reader

\* main.py:155-165  the request or the iteration over the stream raises: the
\* exception leaves groq_shamila_search before main.py:170.
CompletionFail(s) ==
    /\ pc[s] \in {"waiting", "streaming"}
    /\ pc' = [pc EXCEPT ![s] = "idle"]
    /\ result' = [result EXCEPT ![s] = "raised"]
    /\ steps' = [steps EXCEPT ![s] = @ \o <<"raise">>]
    /\ UNCHANGED <<users, session_state, query, loaded, history, trimmed,
                   messages, info, answer, reader, saved, calls>>

\* main.py:155-162  create(...) returns the response, a stream of chunks;
\* answer_chunks = []
StreamBegin(s, chunks) ==
    /\ pc[s] = "waiting"
    /\ pc' = [pc EXCEPT ![s] = "streaming"]
    /\ stream' = [stream EXCEPT ![s] = chunks]
    /\ pos' = [pos EXCEPT ![s] = 0]
    /\ answer_chunks' = [answer_chunks EXCEPT ![s] = <<>>]
    /\ UNCHANGED <<users, session_state, query, loaded, history, trimmed,
                   messages, info, result, answer, steps, saved, calls>>

\* main.py:163-165  one pass of the loop over the response
ReadChunk(s) ==
    /\ pc[s] = "streaming"
    /\ pos[s] < Len(stream[s])
    /\ pos' = [pos EXCEPT ![s] = @ + 1]
    /\ answer_chunks' =
           [answer_chunks EXCEPT ![s] =
               IF has_content(stream[s][pos[s] + 1])
               THEN Append(@, stream[s][pos[s] + 1].content)
               ELSE @]
    /\ UNCHANGED <<users, session_state, pc, query, loaded, history, trimmed,
                   messages, info, result, answer, steps, stream, saved, calls>>

\* main.py:167-177  the loop is over: "".join(answer_chunks) is recorded
StreamEnd(s) ==
    /\ pc[s] = "streaming"
    /\ pos[s] = Len(stream[s])
    /\ RecordAnswer(s, join(answer_chunks[s], 1))
    /\ UNCHANGED reader

\* main.py:334-337, 220-221  a browser session that starts over (a reload, a
\* new tab) gets an empty st.session_state: not authenticated, no username,
\* an empty in-session history.  Nothing of its earlier calls is left.
NewSession(s) ==
    /\ pc[s] = "idle"
    /\ authenticated' = [authenticated EXCEPT ![s] = FALSE]
    /\ username' = [username EXCEPT ![s] = None]
    /\ conversation_history' = [conversation_history EXCEPT ![s] = <<>>]
    /\ query' = [query EXCEPT ![s] = <<>>]
    /\ loaded' = [loaded EXCEPT ![s] = <<>>]
    /\ history' = [history EXCEPT ![s] = <<>>]
    /\ trimmed' = [trimmed EXCEPT ![s] = FALSE]
    /\ messages' = [messages EXCEPT ![s] = <<>>]
    /\ info' = [info EXCEPT ![s] = {}]
    /\ result' = [result EXCEPT ![s] = ""]
    /\ answer' = [answer EXCEPT ![s] = <<>>]
    /\ steps' = [steps EXCEPT ![s] = <<>>]
    /\ stream' = [stream EXCEPT ![s] = <<>>]
    /\ pos' = [pos EXCEPT ![s] = 0]
    /\ answer_chunks' = [answer_chunks EXCEPT ![s] = <<>>]
    /\ saved' = [saved EXCEPT ![s] = <<>>]
    /\ UNCHANGED <<users, pc, calls>>

\* The next-state relation over given sets of sessions, account names,
\* passwords and prompts, and the responses RR[s] the service may give s.
NextOver(SS, NN, PP, QQ, RR) ==
    \/ \E s \in SS, name \in NN, password \in PP : Signup(s, name, password)
    \/ \E s \in SS, name \in NN, password \in PP : Login(s, name, password)
    \/ \E s \in SS, prompt \in QQ : ChatSubmit(s, prompt)
    \/ \E s \in SS : \E chunks \in RR[s] : CompletionReturn(s, chunks)
    \/ \E s \in SS : CompletionFail(s)

\* One session, as a guest and then as alice.
Next == NextOver({"s1"}, {"alice"}, {"p"}, Prompts, [s \in Sessions |-> Streams])

Spec == Init /\ [][Next]_vars

(***************************************************************************)
(* Two sessions that may both log in as alice: calls of the same user      *)
(* interleave between the load (main.py:80) and the save (main.py:172).    *)
(***************************************************************************)
RacePrompts == {Words(2), Words(300)}

\* The service answers with 1300 words and one more word that differs from
\* call to call, so that equal turns are the same turn.
Tag(s) == <<" ", IF s = "s1" THEN "x" ELSE "y">> \o [i \in 1..calls |-> "b"]
RaceStream(s) == <<Delta(Words(1300)), Delta(Tag(s))>>

\* Both sessions chat once logged in (main.py:341-342).
LoggedInChat(s, prompt) == authenticated[s] /\ ChatSubmit(s, prompt)

NextRace ==
    \/ \E s \in Sessions : Signup(s, "alice", "p")
    \/ \E s \in Sessions : Login(s, "alice", "p")
    \/ \E s \in Sessions, prompt \in RacePrompts : LoggedInChat(s, prompt)
    \/ \E s \in Sessions : CompletionReturn(s, RaceStream(s))
    \/ \E s \in Sessions : CompletionFail(s)

SpecRace == Init /\ [][NextRace]_vars

(***************************************************************************)
(* Two sessions, two account names, two passwords, a short prompt and one  *)
(* of 301 words, short answers.                                            *)
(***************************************************************************)
AccountNames     == {"alice", "bob"}
AccountPasswords == {"p", "q"}
AccountPrompts   == { <<"h", "i">>, Words(301) }
AccountStreams   == { <<Delta(<<"o", "k">>)>> }

NextAccounts ==
    NextOver(Sessions, AccountNames, AccountPasswords, AccountPrompts,
             [s \in Sessions |-> AccountStreams])

SpecAccounts == Init /\ [][NextAccounts]_vars

(***************************************************************************)
(* One session whose responses are read chunk by chunk: the request or the *)
(* stream may fail between any two chunks.                                 *)
(***************************************************************************)
StreamPrompts == { <<"h", "i">> }
StreamResponses ==
    { <<RoleOnly>>,
      <<RoleOnly, Delta(<<"o">>), Delta(<<>>), Delta(<<"k", " ">>), RoleOnly>>,
      <<Delta(<<"n", "o">>), Delta(<<"t">>)>> }

NextStream ==
    \/ Signup("s1", "alice", "p")
    \/ Login("s1", "alice", "p")
    \/ \E prompt \in StreamPrompts : ChatSubmit("s1", prompt)
    \/ \E chunks \in StreamResponses : StreamBegin("s1", chunks)
    \/ ReadChunk("s1")
    \/ StreamEnd("s1")
    \/ CompletionFail("s1")

SpecStream == Init /\ [][NextStream]_vars

(***************************************************************************)
(* One browser that comes back: the session chats as a guest or as alice,  *)
(* starts over, logs in again.  The answers are long enough for evictions. *)
(***************************************************************************)
VisitPrompts == {Words(300), Words(301)}
VisitStream  == <<Delta(Words(1600))>>

NextVisits ==
    \/ Signup("s1", "alice", "p")
    \/ Login("s1", "alice", "p")
    \/ \E prompt \in VisitPrompts : ChatSubmit("s1", prompt)
    \/ CompletionReturn("s1", VisitStream)
    \/ CompletionFail("s1")
    \/ NewSession("s1")

SpecVisits == Init /\ [][NextVisits]_vars

(***************************************************************************)
(* Two sessions that chat as guests and as alice, log in and start over.   *)
(* The service marks each answer: "g" to a guest, "u" to a user.           *)
(***************************************************************************)
GuestPrompts == { <<"h", "i">> }
GuestStream(s) == <<RoleOnly, Delta(IF authenticated[s] THEN <<"u">> ELSE <<"g">>)>>

NextGuests ==
    \/ \E s \in Sessions : Signup(s, "alice", "p")
    \/ \E s \in Sessions : Login(s, "alice", "p")
    \/ \E s \in Sessions, prompt \in GuestPrompts : ChatSubmit(s, prompt)
    \/ \E s \in Sessions : CompletionReturn(s, GuestStream(s))
    \/ \E s \in Sessions : CompletionFail(s)
    \/ \E s \in Sessions : NewSession(s)

SpecGuests == Init /\ [][NextGuests]_vars

(***************************************************************************)
(* Notions the properties are stated with.                                 *)
(***************************************************************************)
\* estimate(text) of the specification is count_tokens; the estimate of a
\* history with a pending query:
EstimateSum(hist, q) == SumTurns(hist, 1) + count_tokens(q)

\* hist without its k oldest turns.
Suffix(hist, k) == SubSeq(hist, k + 1, Len(hist))

\* The history held for the identity of session s: the persisted history of
\* the user when authenticated, the in-session history of a guest.
Held(s) ==
    IF authenticated[s] THEN get_user_history(users, username[s])
    ELSE conversation_history[s]

HeldNext(s) ==
    IF authenticated'[s] THEN get_user_history(users', username'[s])
    ELSE conversation_history'[s]

\* The latest call of session s went past the per-request check.
Budgeted(s) == steps[s] # <<>>

\* The trimmed history of the latest call of s: the local list before the
\* new turn is appended to it.
Did(s, step) == \E i \in DOMAIN steps[s] : steps[s][i] = step

Trimmed(s) ==
    IF Did(s, "append") THEN SubSeq(history[s], 1, Len(history[s]) - 1)
    ELSE history[s]

Evicted(s) == Len(loaded[s]) - Len(Trimmed(s))

RECURSIVE SumContent(_, _)
SumContent(msgs, i) ==
    IF i > Len(msgs) THEN 0
    ELSE count_tokens(msgs[i].content) + SumContent(msgs, i + 1)

\* Session s returns an answer in this step.
Answered(s) ==
    pc[s] \in {"waiting", "streaming"} /\ pc'[s] = "idle" /\ result'[s] = "answer"

(***************************************************************************)
(* C1.  A prompt of more than 300 estimated tokens gets the fixed too-long *)
(* message and nothing else happens: no history is loaded, no request is   *)
(* made to the completion service, and neither the users table nor any     *)
(* in-session history changes.                                             *)
(***************************************************************************)
C1_TooLongShortCircuits ==
    [][\A s \in Sessions : \A q \in Prompts :
          (count_tokens(q) > per_request_limit /\ ChatSubmit(s, q)) =>
              /\ result'[s] = TooLongMsg
              /\ steps'[s] = <<>>
              /\ messages'[s] = <<>>
              /\ pc'[s] = "idle"
              /\ users' = users
              /\ conversation_history' = conversation_history]_vars

C1_Witness ==
    \E s \in Sessions :
        /\ result[s] = TooLongMsg
        /\ count_tokens(query[s]) > per_request_limit
        /\ authenticated[s]
        /\ conversation_history[s] # <<>>

(***************************************************************************)
(* C2.  Whenever a request to the completion service is in flight, the     *)
(* history and the query it carries sum to at most 1500 estimated tokens.  *)
(***************************************************************************)
C2_SentWithinBudget ==
    \A s \in Sessions :
        pc[s] = "waiting" => SumContent(messages[s], 2) <= max_allowed_tokens

C2_Witness ==
    \E s \in Sessions :
        /\ pc[s] = "waiting"
        /\ Len(loaded[s]) > Len(history[s])
        /\ Len(messages[s]) > 2

(***************************************************************************)
(* C3.  After the evictions of a call the remaining history is the loaded  *)
(* history without its oldest turns, as many as the loop made iterations:  *)
(* same turns, same order, nothing taken from the middle or the end.       *)
(***************************************************************************)
C3_EvictionOldestFirst ==
    \A s \in Sessions :
        Budgeted(s) =>
            /\ Evicted(s) \in 0..Len(loaded[s])
            /\ Trimmed(s) = Suffix(loaded[s], Evicted(s))
            /\ Evicted(s) = Cardinality({i \in DOMAIN steps[s] : steps[s][i] = "pop"})

C3_Witness ==
    \E s \in Sessions :
        /\ Budgeted(s)
        /\ Evicted(s) >= 2
        /\ loaded[s][1] # loaded[s][2]

(***************************************************************************)
(* C4.  The trimmed history is the longest suffix of the loaded history    *)
(* that fits with the query under 1500; a loaded history that fits is left *)
(* as it is and the flag stays false.                                      *)
(***************************************************************************)
C4_LongestFittingSuffix ==
    \A s \in Sessions :
        pc[s] = "waiting" =>
            \E k \in {Len(loaded[s]) - Len(history[s])} :
                /\ k >= 0
                /\ history[s] = Suffix(loaded[s], k)
                /\ EstimateSum(history[s], query[s]) <= max_allowed_tokens
                /\ \A j \in 0..(k - 1) :
                      EstimateSum(Suffix(loaded[s], j), query[s]) > max_allowed_tokens
                /\ (k = 0 => ~trimmed[s])

C4_Witness ==
    \E s \in Sessions :
        /\ pc[s] = "waiting"
        /\ history[s] # <<>>
        /\ Len(history[s]) < Len(loaded[s])

C4_WitnessUntrimmed ==
    \E s \in Sessions :
        /\ pc[s] = "waiting"
        /\ Len(loaded[s]) >= 2
        /\ history[s] = loaded[s]
        /\ ~trimmed[s]

(***************************************************************************)
(* C5.  The flag is true exactly when the call evicted at least one turn,  *)
(* and the trimming notice is shown exactly when the flag is true and the  *)
(* call was not rejected.                                                  *)
(***************************************************************************)
C5_TrimmedFlagAndNotice ==
    \A s \in Sessions :
        /\ Budgeted(s) => (trimmed[s] <=> Evicted(s) >= 1)
        /\ (TrimNotice \in info[s]) <=> (trimmed[s] /\ Did(s, "create"))

C5_Witness ==
    \E s \in Sessions :
        /\ Did(s, "append")
        /\ trimmed[s]
        /\ TrimNotice \in info[s]
        /\ Evicted(s) >= 1

(***************************************************************************)
(* C7.  When a call returns an answer, the history stored for its identity *)
(* is the trimmed history (the loaded history without the evicted turns)   *)
(* followed by the one new turn (query, answer); the turns the call        *)
(* evicted are not in it.                                                  *)
(***************************************************************************)
Turns(hist) == {hist[i] : i \in DOMAIN hist}

StoredIsTrimmedPlusTurn(s) ==
    \E k \in {Len(loaded[s]) - Len(history[s])} :
        /\ k >= 0
        /\ history[s] = Suffix(loaded[s], k)
        /\ HeldNext(s) = Append(history[s], <<query[s], answer'[s]>>)
        /\ \A i \in 1..k : loaded[s][i] \notin Turns(HeldNext(s))

C8_FailureLeavesHistory ==
    [][\A s \in Sessions :
          (pc[s] = "waiting" /\ pc'[s] = "idle" /\ result'[s] = "raised") =>
              /\ HeldNext(s) = loaded[s]
              /\ users' = users]_vars

(***************************************************************************)
(* C9.  Loading right after a save gives back the history that was saved,  *)
(* turn by turn: for the persisted history of a user (json.dumps, then     *)
(* json.loads) and for the in-session history of a guest.  The empty       *)
(* history is the text written at signup.                                  *)
(***************************************************************************)
C9_SaveLoadRoundTrip ==
    [][/\ \A s \in Sessions : Answered(s) => HeldNext(s) = history'[s]
       /\ \A u \in DOMAIN users' :
             u \notin DOMAIN users => get_user_history(users', u) = <<>>]_vars

C9_Witness ==
    \E s \in Sessions :
        /\ authenticated[s]
        /\ Did(s, "update")
        /\ Len(history[s]) >= 2
        /\ Held(s) = history[s]
        /\ \E i \in DOMAIN history[s] :
              /\ history[s][i][2] = <<>>
              /\ \E j \in DOMAIN history[s][i][1] : history[s][i][1][j] = "\\"

C9_WitnessGuest ==
    \E s \in Sessions :
        /\ ~authenticated[s]
        /\ Did(s, "set")
        /\ Len(history[s]) = 1
        /\ Held(s) = history[s]

(***************************************************************************)
(* C10.  Signing up with a name that has a row shows "Username already     *)
(* exists." and leaves the table as it was; with a new name it adds a row  *)
(* with the given password and an empty history and touches no other row.  *)
(***************************************************************************)
C10_SignupExistingName ==
    [][\A s \in Sessions, n \in AccountNames, p \in AccountPasswords :
          Signup(s, n, p) =>
              IF n \in DOMAIN users
              THEN /\ result'[s] = "Username already exists."
                   /\ users' = users
              ELSE /\ result'[s] = "Account created. Please log in."
                   /\ DOMAIN users' = DOMAIN users \cup {n}
                   /\ users'[n].password = p
                   /\ get_user_history(users', n) = <<>>
                   /\ \A u \in DOMAIN users : users'[u] = users[u]]_vars

C10_Witness ==
    \E s \in Sessions :
        /\ result[s] = "Username already exists."
        /\ \E u \in DOMAIN users : get_user_history(users, u) # <<>>

(***************************************************************************)
(* C11  validate_credentials(name, password) succeeds exactly when a User  *)
(* Record of that name exists and its stored password equals the supplied  *)
(* one; a login that fails shows "Invalid credentials." and leaves the     *)
(* session as it was, whether the name is unknown or the password wrong:   *)
(* the step of one failed login is the step of any other failed login.     *)
(* Checked under SpecAccounts.                                             *)
(***************************************************************************)
RecordMatches(name, password) ==
    name \in DOMAIN users /\ users[name].password = password

C11_LoginOutcome ==
    [][\A s \in Sessions, n \in AccountNames, p \in AccountPasswords :
          Login(s, n, p) =>
              IF RecordMatches(n, p)
              THEN /\ authenticated'[s]
                   /\ username'[s] = n
                   /\ result'[s] = "Welcome back"
              ELSE /\ result'[s] = "Invalid credentials."
                   /\ UNCHANGED session_state
                   /\ \A m \in AccountNames, q \in AccountPasswords :
                          ~RecordMatches(m, q) => Login(s, m, q)]_vars

\* A guest session was refused while alice has an account and bob has none:
\* the refusal is the one of an unknown name and of a wrong password.
C11_Witness ==
    \E s \in Sessions :
        /\ result[s] = "Invalid credentials."
        /\ ~authenticated[s]
        /\ DOMAIN users = {"alice"}

(***************************************************************************)
(* C12  In a guest session the history a call loads is exactly the history *)
(* the most recent earlier successful call of that session stored, and the *)
(* empty history when there was none.  Checked under Spec.                 *)
(***************************************************************************)
\* Session s submits a prompt that goes past the per-request check.
SubmitsBudgeted(s) ==
    calls' = calls + 1 /\ steps'[s] # steps[s] /\ steps'[s] # <<>>

C12_GuestLoadsLastStored ==
    [][\A s \in Sessions :
          (~authenticated[s] /\ SubmitsBudgeted(s)) => loaded'[s] = saved[s]]_vars

(***************************************************************************)
(* C13  Two answer calls of the same authenticated user interleave freely: *)
(* when a call saves and the turn another session of that user saved is    *)
(* not in what the call had loaded (the other save came after the load),   *)
(* the persisted history afterwards is exactly the history written by this *)
(* later save, and the turn of the earlier save is not in it.              *)
(* Checked under SpecRace.                                                 *)
(***************************************************************************)
\* The turn the latest successful call of session s appended.
SavedTurn(s) == saved[s][Len(saved[s])]

SameUser(s, o) ==
    authenticated[s] /\ authenticated[o] /\ username[s] = username[o]

C13_LaterSaveWins ==
    [][\A s \in Sessions : \A o \in Sessions \ {s} :
          ( /\ Answered(s)
            /\ SameUser(s, o)
            /\ saved[o] # <<>>
            /\ SavedTurn(o) \notin Turns(loaded[s]) )
          => /\ get_user_history(users', username[s])
                    = Append(history[s], <<query[s], answer'[s]>>)
             /\ SavedTurn(o) \notin Turns(get_user_history(users', username[s]))
      ]_vars

\* Both sessions of one user loaded the same persisted history, both calls
\* completed, and the table holds what session s saved, without the turn
\* session o saved.
C13_Witness ==
    \E s \in Sessions : \E o \in Sessions \ {s} :
        /\ SameUser(s, o)
        /\ pc[s] = "idle" /\ pc[o] = "idle"
        /\ Did(s, "update") /\ Did(o, "update")
        /\ loaded[s] = loaded[o]
        /\ Held(s) = saved[s]
        /\ SavedTurn(o) \notin Turns(Held(s))

(***************************************************************************)
(* C14  The messages sent to the completion service are one system         *)
(* message, then for every turn of the trimmed history, oldest first, a    *)
(* user message with its question followed by an assistant message with    *)
(* its reply, then one user message with the query: 2 * Len(trimmed) + 2   *)
(* messages, and none of them from an evicted turn, the trimmed history    *)
(* being the loaded one without its evicted oldest turns.                  *)
(* Checked under Spec.                                                     *)
(***************************************************************************)
C14_MessageSequence ==
    \A s \in Sessions :
        pc[s] = "waiting" =>
            \E n \in {Len(history[s])} :
                /\ history[s] = Suffix(loaded[s], Len(loaded[s]) - n)
                /\ Len(messages[s]) = 2 * n + 2
                /\ messages[s][1].role = "system"
                /\ \A i \in 1..n :
                       /\ messages[s][2 * i] =
                              [role |-> "user", content |-> history[s][i][1]]
                       /\ messages[s][2 * i + 1] =
                              [role |-> "assistant", content |-> history[s][i][2]]
                /\ messages[s][2 * n + 2] =
                       [role |-> "user", content |-> query[s]]

\* A request goes out with one turn kept and one turn evicted.
C14_Witness ==
    \E s \in Sessions :
        /\ pc[s] = "waiting"
        /\ Len(loaded[s]) = 2
        /\ Len(history[s]) = 1
        /\ Len(messages[s]) = 4

(***************************************************************************)
(* C15  The answer returned and recorded is the concatenation, in stream   *)
(* order, of the contents of exactly the fragments that carry a non-empty  *)
(* content; fragments without one are passed over and the call goes on;    *)
(* nothing is written to a history before the whole stream is consumed.    *)
(* Checked under SpecStream.                                               *)
(***************************************************************************)
\* The contents of the first n fragments, in order; a fragment without a
\* content contributes nothing.
RECURSIVE ContentUpTo(_, _)
ContentUpTo(chunks, n) ==
    IF n = 0 THEN <<>>
    ELSE ContentUpTo(chunks, n - 1)
         \o (IF "content" \in DOMAIN chunks[n] THEN chunks[n].content ELSE <<>>)

C15_AnswerIsStreamContent ==
    [][\A s \in Sessions :
          /\ Answered(s) =>
                 /\ pos[s] = Len(stream[s])
                 /\ answer'[s] = ContentUpTo(stream[s], Len(stream[s]))
                 /\ HeldNext(s)[Len(HeldNext(s))] = <<query[s], answer'[s]>>
          /\ (pc[s] = "streaming" /\ pos[s] < Len(stream[s])) =>
                 /\ HeldNext(s) = Held(s)
                 /\ users' = users
                 /\ pc'[s] = "streaming" \/ result'[s] = "raised"]_vars

\* An answer was recorded from a stream holding a fragment with no content
\* field and one with an empty content between fragments with text.
C15_Witness ==
    \E s \in Sessions :
        /\ pc[s] = "idle"
        /\ Did(s, "append")
        /\ stream[s] = <<RoleOnly, Delta(<<"o">>), Delta(<<>>),
                         Delta(<<"k", " ">>), RoleOnly>>
        /\ answer[s] = <<"o", "k", " ">>

(***************************************************************************)
(* C16  The persisted history of a user changes only in the step that ends *)
(* a successful answer call of a session authenticated as that user, and   *)
(* becomes what that call appended to; signups, logins, failed logins,     *)
(* rejected and failed calls, guest calls and calls of other users leave   *)
(* it as it is.  A row, once created, stays, and its password never        *)
(* changes.  Checked under SpecAccounts.                                   *)
(***************************************************************************)
C16_HistoryFrame ==
    [][\A u \in DOMAIN users :
          /\ u \in DOMAIN users'
          /\ users'[u].password = users[u].password
          /\ users'[u].history # users[u].history =>
                 \E s \in Sessions :
                     /\ Answered(s)
                     /\ authenticated[s]
                     /\ username[s] = u
                     /\ get_user_history(users', u) =
                            Append(history[s], <<query[s], answer'[s]>>)]_vars

\* Two accounts exist; a session of one user has saved a turn, a guest
\* session holds a turn of its own, and the other user's history is empty.
C16_Witness ==
    \E s \in Sessions : \E o \in Sessions \ {s} :
        /\ authenticated[s]
        /\ Did(s, "update")
        /\ ~authenticated[o]
        /\ conversation_history[o] # <<>>
        /\ \E u \in DOMAIN users \ {username[s]} :
               get_user_history(users, u) = <<>>

(***************************************************************************)
(* C17  No answer call returns the rejection for a history and query that  *)
(* exceed the budget: a query that passes the per-request check has at     *)
(* most 300 estimated tokens, the loop evicts until the sum fits or no     *)
(* turn is left, and so every call with a query of at most 300 estimated   *)
(* tokens sends its request to the completion service.                     *)
(* Checked under Spec.                                                     *)
(***************************************************************************)
C17_NeverOverLimit ==
    [][\A s \in Sessions : \A q \in Prompts :
          ChatSubmit(s, q) =>
              /\ result'[s] # LimitMsg
              /\ count_tokens(q) <= per_request_limit =>
                     /\ pc'[s] = "waiting"
                     /\ steps'[s][Len(steps'[s])] = "create"
                     /\ messages'[s][Len(messages'[s])].content = q]_vars

\* A query of exactly 300 estimated tokens is sent after every turn of a
\* history that did not fit was evicted.
C17_Witness ==
    \E s \in Sessions :
        /\ pc[s] = "waiting"
        /\ loaded[s] # <<>>
        /\ history[s] = <<>>
        /\ count_tokens(query[s]) = per_request_limit

(***************************************************************************)
(* C18  In an authenticated session, no other session being logged in as   *)
(* the same user, the in-session history that is displayed equals the      *)
(* persisted history of the user whenever no call is running: after the    *)
(* login and after every answer call, be it answered, rejected or failed.  *)
(* Checked under SpecVisits.                                               *)
(***************************************************************************)
\* The history column of user u, decoded.
Persisted(u) == json_loads(users[u].history)

C18_DisplayedIsPersisted ==
    \A s \in Sessions :
        ( /\ authenticated[s]
          /\ pc[s] = "idle"
          /\ \A o \in Sessions \ {s} : ~SameUser(s, o) )
        => conversation_history[s] = Persisted(username[s])

\* A call of an authenticated session evicted a turn and then failed; the
\* displayed history still holds the turn.
C18_Witness ==
    \E s \in Sessions :
        /\ authenticated[s]
        /\ pc[s] = "idle"
        /\ Did(s, "pop")
        /\ Did(s, "raise")
        /\ conversation_history[s] # <<>>

\* A session that has made no call displays the turns of an earlier visit
\* right after the login.
C18_WitnessLogin ==
    \E s \in Sessions :
        /\ authenticated[s]
        /\ result[s] = "Welcome back"
        /\ steps[s] = <<>>
        /\ conversation_history[s] # <<>>

\* A call of an authenticated session with a history was rejected.
C18_WitnessRejected ==
    \E s \in Sessions :
        /\ authenticated[s]
        /\ result[s] = TooLongMsg
        /\ conversation_history[s] # <<>>

(***************************************************************************)
(* C19  A turn produced in a guest session never enters the persisted      *)
(* history of any user and is never sent for an authenticated session: a   *)
(* successful login replaces the in-session history with the persisted     *)
(* history of the user, and every call of an authenticated session loads   *)
(* the persisted history, not the in-session one.                          *)
(* Checked under SpecGuests, where the answers to guests are marked.       *)
(***************************************************************************)
GuestAnswer == <<"g">>

C19_GuestTurnsStayOut ==
    [][/\ \A u \in DOMAIN users' :
              \A turn \in Turns(json_loads(users'[u].history)) :
                  turn[2] # GuestAnswer
       /\ \A s \in Sessions :
              /\ (authenticated'[s] /\ pc'[s] = "waiting") =>
                     \A i \in DOMAIN messages'[s] :
                         messages'[s][i].content # GuestAnswer
              /\ (~authenticated[s] /\ authenticated'[s]) =>
                     conversation_history'[s] = Persisted(username'[s])
              /\ (authenticated[s] /\ SubmitsBudgeted(s)) =>
                     loaded'[s] = Persisted(username[s])]_vars

\* A session answered as a guest, logged in, and its request as the user is
\* out: the turn of the guest is in none of its messages.
C19_Witness ==
    \E s \in Sessions :
        /\ authenticated[s]
        /\ pc[s] = "waiting"
        /\ saved[s] # <<>>
        /\ saved[s][Len(saved[s])][2] = GuestAnswer
        /\ \A i \in DOMAIN messages[s] : messages[s][i].content # GuestAnswer

====
